---- MODULE Spec2Model ----
(***************************************************************************)
(* Model of chrombpnet/helpers/preprocessing/reads_to_bigwig/              *)
(* reads_to_bigwig.py: main() (shift resolution, shift-delta rule) and     *)
(* generate_bigwig() (adapter | awk | sort | bedtools genomecov | sort,    *)
(* then bedGraphToBigWig, then release of the temporary bedGraph).         *)
(*                                                                         *)
(* Python's None is the empty tuple <<>>, a present value v is <<v>>.      *)
(* Chromosome names are the tuples of the characters that follow "chr":   *)
(* <<1, 0>> is chr10 and <<2>> is chr2, so that sort's byte order on      *)
(* names can be computed.  Input paths are non-empty strings, and every    *)
(* read lies on a chromosome the chrom sizes table declares.  sort is      *)
(* taken in the C locale.                                                  *)
(***************************************************************************)
EXTENDS Integers, Sequences, FiniteSets, TLC

VARIABLES
    pc,                 \* position in main / generate_bigwig
    entry,              \* "main" (command line) or "generate_bigwig" (called directly)
    args,               \* the parsed arguments / the call's input arguments
    plus_shift,         \* main's local plus_shift
    minus_shift,        \* main's local minus_shift
    plus_shift_delta,   \* main's local / generate_bigwig's parameter
    minus_shift_delta,  \* main's local / generate_bigwig's parameter
    estimatorCalls,     \* calls of auto_shift_detect.compute_shift so far
    estimated,          \* what compute_shift returned (None before)
    fileReads,          \* the records of the input file
    chromSizes,         \* the chrom sizes file: its lines in declaration order
    streamsOpened,      \* calls of auto_shift_detect.*_stream so far
    p1,                 \* the adapter process: None or the kind opened
    delivered,          \* the records the adapter wrote to the pipe
    adapterFailed,      \* the adapter process ended with an error
    tmp_bedgraph,       \* "none", "open" (created, not released) or "closed"
    bedgraph,           \* the lines written to the temporary bedGraph
    aggFailed,          \* a process of the shell pipeline ended with an error
    encoderInvoked,     \* bedGraphToBigWig was launched
    encoderFailed,      \* bedGraphToBigWig failed or could not be launched
    outputFile,         \* <prefix>_unstranded.bw: "absent", "partial" or "written"
    outcome             \* "running", "ok", or the error that ended the run

vars == <<pc, entry, args, plus_shift, minus_shift, plus_shift_delta,
          minus_shift_delta, estimatorCalls, estimated, fileReads, chromSizes,
          streamsOpened, p1, delivered, adapterFailed, tmp_bedgraph, bedgraph,
          aggFailed, encoderInvoked, encoderFailed, outputFile, outcome>>

(***************************************************************************)
(* Bounds of the model.                                                    *)
(***************************************************************************)
\* shifts given by the user or returned by the estimator are in -MaxShift..MaxShift
MaxShift == 2
\* read starts are in 0..MaxPos-1 and every chromosome has MaxPos bases
MaxPos == 2
\* an input file holds at most MaxReads records
MaxReads == 3

None == <<>>
Some(v) == <<v>>
Val(x) == x[1]

Min(a, b) == IF a <= b THEN a ELSE b

(***************************************************************************)
(* Inputs.                                                                 *)
(***************************************************************************)
ShiftVals == (0 - MaxShift)..MaxShift
\* the deltas passed to a direct call of generate_bigwig: toward the chromosome's
\* start, none, toward its end
DeltaVals == {0 - 1, 0, 1}
OptShift == {None} \cup {Some(v) : v \in ShiftVals}
OptPath == {None, Some("reads")}
DataTypes == {"ATAC", "DNASE"}
\* a read's first base is its last base, or the base before it
ReadLens == {1, 2}

\* chr10 and chr2: byte order and numeric order of the names differ
Chroms == {<<1, 0>>, <<2>>}

\* the chrom sizes tables: every declaration order of the chromosomes
ChromSizesTables ==
    {t \in [1..Cardinality(Chroms) -> [chrom : Chroms, size : {MaxPos}]] :
        \A i, j \in DOMAIN t : i # j => t[i].chrom # t[j].chrom}

ReadPool ==
    {[chrom |-> c, start |-> s, end |-> s + l, strand |-> d] :
        c \in Chroms, s \in 0..(MaxPos - 1), l \in ReadLens, d \in {"+", "-"}}


\* a total order on the reads, to write a file's records as one canonical tuple
ChromNum(c) == IF Len(c) = 1 THEN c[1] ELSE 10 * c[1] + c[2]
ReadKey(r) ==
    ((ChromNum(r.chrom) * (MaxPos + 3) + r.start)
        * (MaxPos + 3) + r.end) * 2
    + (IF r.strand = "+" THEN 0 ELSE 1)

\* The input files.  What the pipeline writes does not depend on the order of
\* the records (its first stage after awk is sort), so a file is the multiset
\* of its records, written in ReadKey order.
InputFiles ==
    {f \in UNION {[1..n -> ReadPool] : n \in 0..MaxReads} :
        \A i \in 1..(Len(f) - 1) : ReadKey(f[i]) <= ReadKey(f[i + 1])}

(***************************************************************************)
(* main: the input group of the argument parser, the shift pair, the       *)
(* shift deltas.                                                           *)
(***************************************************************************)
\* the number of the three input arguments that are given
NumInputs(a) ==
    (IF a.input_bam_file = None THEN 0 ELSE 1)
    + (IF a.input_fragment_file = None THEN 0 ELSE 1)
    + (IF a.input_tagalign_file = None THEN 0 ELSE 1)

\* a parser without the input group: any number of inputs is accepted
ParseArgsLoose(a) == TRUE

\* add_mutually_exclusive_group(required=True): exactly one of -ibam, -ifrag, -itag
ParseArgsOk(a) == NumInputs(a) = 1

\* (plus_shift is None) or (minus_shift is None)
NeedsEstimate(p, m) == p = None \/ m = None

\* a resolver that keeps the one shift the user gave and estimates the other
ResolveShiftMixed(p, m, est) ==
    <<IF p = None THEN est[1] ELSE Val(p), IF m = None THEN est[2] ELSE Val(m)>>

\* the pair main goes on with: the estimator's when it was called, else the user's
ResolveShift(p, m, est) ==
    IF NeedsEstimate(p, m) THEN est ELSE <<Val(p), Val(m)>>

\* the ATAC rule with +4 on both strands
ComputeDeltaSameSign(data_type, p, m) ==
    IF data_type = "ATAC" THEN <<4 - p, 4 - m>> ELSE <<0 - p, 1 - m>>

\* computing additional shifting to apply
ComputeDelta(data_type, p, m) ==
    IF data_type = "ATAC" THEN <<4 - p, (0 - 4) - m>> ELSE <<0 - p, 1 - m>>

\* generate_bigwig's assert: exactly two of the three inputs are None
OnlyOneInput(a) ==
    (IF a.input_bam_file = None THEN 1 ELSE 0)
    + (IF a.input_fragment_file = None THEN 1 ELSE 0)
    + (IF a.input_tagalign_file = None THEN 1 ELSE 0) = 2

\* the adapter generate_bigwig opens: the first input that is given
AdapterKind(a) ==
    IF a.input_bam_file # None THEN "bam_to_tagalign_stream"
    ELSE IF a.input_fragment_file # None THEN "fragment_to_tagalign_stream"
    ELSE "tagalign_stream"

(***************************************************************************)
(* The shell pipeline of generate_bigwig:                                  *)
(*   awk (shift) | sort -k1,1 | bedtools genomecov -bg -5 | sort -k1,1 -k2,2n *)
(***************************************************************************)
\* awk: both columns 2 and 3 of a record move by the delta of its strand
AwkShift(reads, pd, md) ==
    [i \in DOMAIN reads |->
        LET r == reads[i]
            d == IF r.strand = "+" THEN pd ELSE md
        IN [chrom |-> r.chrom, start |-> r.start + d, end |-> r.end + d,
            strand |-> r.strand]]

\* byte order of two names: the first differing character decides, a proper
\* prefix comes first
LexLess(a, b) ==
    \E i \in 1..(Min(Len(a), Len(b)) + 1) :
        /\ \A j \in 1..(i - 1) : a[j] = b[j]
        /\ \/ i > Len(a) /\ i <= Len(b)
           \/ i <= Len(a) /\ i <= Len(b) /\ a[i] < b[i]

\* the order a numeric (version) sort of the names would give: chr2 before chr10
NaturalLess(a, b) == Len(a) < Len(b) \/ (Len(a) = Len(b) /\ LexLess(a, b))

\* the order of sort's key 1 (-k1,1): byte order of the chromosome name
ChromLess(a, b) == LexLess(a, b)

\* x put into the sorted tuple s, after the entries that are not greater
InsertBedLine(s, x) ==
    LET k == Cardinality({j \in DOMAIN s : ~ChromLess(x.chrom, s[j].chrom)})
    IN SubSeq(s, 1, k) \o <<x>> \o SubSeq(s, k + 1, Len(s))

\* sort -k1,1 on the shifted records
SortByChrom(lines) ==
    LET F[i \in 0..Len(lines)] ==
            IF i = 0 THEN <<>> ELSE InsertBedLine(F[i - 1], lines[i])
    IN F[Len(lines)]

\* sort -k1,1 -k2,2n on the bedGraph lines: chromosome name, then numeric start
RunLess(a, b) ==
    ChromLess(a.chrom, b.chrom) \/ (a.chrom = b.chrom /\ a.start < b.start)

InsertRun(s, x) ==
    LET k == Cardinality({j \in DOMAIN s : ~RunLess(x, s[j])})
    IN SubSeq(s, 1, k) \o <<x>> \o SubSeq(s, k + 1, Len(s))

SortRuns(runs) ==
    LET F[i \in 0..Len(runs)] ==
            IF i = 0 THEN <<>> ELSE InsertRun(F[i - 1], runs[i])
    IN F[Len(runs)]

\* -g: the size of chromosome c in the chrom sizes table
ChromSize(sizes, c) ==
    LET i == CHOOSE i \in DOMAIN sizes : sizes[i].chrom = c IN sizes[i].size

\* bedtools refuses a record with a negative coordinate and exits
Malformed(line) == line.start < 0 \/ line.end < 0

\* -5: the 5' position of a record
FivePrime(line) == IF line.strand = "+" THEN line.start ELSE line.end - 1

\* without -5: the number of records of chromosome c that cover p
DepthWholeInterval(lines, c, p) ==
    Cardinality({i \in DOMAIN lines :
                    lines[i].chrom = c /\ lines[i].start <= p /\ p < lines[i].end})

\* the number of records of chromosome c whose 5' position is p
Depth(lines, c, p) ==
    Cardinality({i \in DOMAIN lines : lines[i].chrom = c /\ FivePrime(lines[i]) = p})

\* -bg for one chromosome: positions 0..size-1 are scanned, a run is closed
\* where the depth changes, and only runs of depth > 0 are printed
ChromRuns(lines, c, size) ==
    LET Step(acc, pos) ==
            LET d == Depth(lines, c, pos) IN
            IF d = acc.lastDepth THEN acc
            ELSE [runs |-> IF acc.lastDepth > 0
                           THEN Append(acc.runs,
                                    [chrom |-> c, start |-> acc.lastStart,
                                     end |-> pos, depth |-> acc.lastDepth])
                           ELSE acc.runs,
                  lastStart |-> pos, lastDepth |-> d]
        F[n \in 0..size] ==
            IF n = 0 THEN [runs |-> <<>>, lastStart |-> 0 - 1, lastDepth |-> 0 - 1]
            ELSE Step(F[n - 1], n - 1)
        last == F[size]
    IN IF last.lastDepth > 0
       THEN Append(last.runs, [chrom |-> c, start |-> last.lastStart,
                               end |-> size, depth |-> last.lastDepth])
       ELSE last.runs

\* the chromosomes of the records, each once, in the order they first appear
ChromOrder(lines) ==
    LET F[i \in 0..Len(lines)] ==
            IF i = 0 THEN <<>>
            ELSE IF \E j \in 1..(i - 1) : lines[j].chrom = lines[i].chrom
                 THEN F[i - 1] ELSE Append(F[i - 1], lines[i].chrom)
    IN F[Len(lines)]

\* the runs of the first k chromosomes of order, one chromosome after the other
RunsOfChroms(lines, sizes, order, k) ==
    LET F[i \in 0..k] ==
            IF i = 0 THEN <<>>
            ELSE F[i - 1] \o ChromRuns(lines, order[i], ChromSize(sizes, order[i]))
    IN F[k]

\* bedtools genomecov -bg -5 -i stdin -g sizes: the outputs it can end with.
\* Without a malformed record: every chromosome's runs, exit status 0.  With
\* one: it exits with an error at that record, having printed the runs of
\* chromosomes that were complete before it; how many of them were printed
\* depends on where sort put the record within its chromosome, so each number
\* is a possible outcome.
GenomeCov(lines, sizes) ==
    IF \E i \in DOMAIN lines : Malformed(lines[i])
    THEN LET f == CHOOSE i \in DOMAIN lines :
                      /\ Malformed(lines[i])
                      /\ \A j \in 1..(i - 1) : ~Malformed(lines[j])
             before == SelectSeq(ChromOrder(SubSeq(lines, 1, f - 1)),
                                 LAMBDA c : c # lines[f].chrom)
         IN {[failed |-> TRUE, out |-> RunsOfChroms(lines, sizes, before, k)] :
                k \in 0..Len(before)}
    ELSE {[failed |-> FALSE,
           out |-> RunsOfChroms(lines, sizes, ChromOrder(lines),
                                Len(ChromOrder(lines)))]}

\* the whole shell command on the records the adapter delivered
Pipeline(records, sizes, pd, md) ==
    LET lines == SortByChrom(AwkShift(records, pd, md)) IN
    {[failed |-> g.failed, out |-> SortRuns(g.out)] : g \in GenomeCov(lines, sizes)}


(***************************************************************************)
(* Initial states.                                                         *)
(***************************************************************************)
ArgSets ==
    [input_bam_file : OptPath, input_fragment_file : OptPath,
     input_tagalign_file : OptPath, data_type : DataTypes,
     plus_shift : OptShift, minus_shift : OptShift]

\* the pairs auto_shift_detect.compute_shift may return
EstimatorResults == ShiftVals \X ShiftVals

\* the files of a command-line run: at most one record, of one base, on chr2
MainFiles ==
    {<<>>} \cup {<<r>> : r \in {x \in ReadPool : x.chrom = <<2>> /\ x.end = x.start + 1}}

\* the declaration order chr2, chr10
NaturalTable == CHOOSE t \in ChromSizesTables : t[1].chrom = <<2>>

InitCommon ==
    /\ estimatorCalls = 0
    /\ estimated = None
    /\ streamsOpened = 0
    /\ p1 = None
    /\ delivered = <<>>
    /\ adapterFailed = FALSE
    /\ tmp_bedgraph = "none"
    /\ bedgraph = <<>>
    /\ aggFailed = FALSE
    /\ encoderInvoked = FALSE
    /\ encoderFailed = FALSE
    /\ outputFile = "absent"
    /\ outcome = "running"

\* the program is started from the command line: main()
Init ==
    /\ pc = "parse_args"
    /\ entry = "main"
    /\ fileReads \in MainFiles
    /\ chromSizes = NaturalTable
    /\ args \in ArgSets
    /\ plus_shift = None
    /\ minus_shift = None
    /\ plus_shift_delta = None
    /\ minus_shift_delta = None
    /\ InitCommon

\* generate_bigwig, called with any deltas, has started the adapter (lines
\* 31-38) and is about to run the shell command on any file; the command does
\* not read the kind of the input, and the call is the one with a BAM file
InitPipeline ==
    /\ pc = "gb_bedgraph"
    /\ entry = "generate_bigwig"
    /\ fileReads \in InputFiles
    /\ chromSizes \in ChromSizesTables
    /\ args = [input_bam_file |-> Some("reads"), input_fragment_file |-> None,
               input_tagalign_file |-> None, data_type |-> "ATAC",
               plus_shift |-> None, minus_shift |-> None]
    /\ plus_shift = None
    /\ minus_shift = None
    /\ plus_shift_delta \in {Some(d) : d \in DeltaVals}
    /\ minus_shift_delta \in {Some(d) : d \in DeltaVals}
    /\ estimatorCalls = 0
    /\ estimated = None
    /\ streamsOpened = 1
    /\ p1 = Some(AdapterKind(args))
    /\ delivered = <<>>
    /\ adapterFailed = FALSE
    /\ tmp_bedgraph = "none"
    /\ bedgraph = <<>>
    /\ aggFailed = FALSE
    /\ encoderInvoked = FALSE
    /\ encoderFailed = FALSE
    /\ outputFile = "absent"
    /\ outcome = "running"

(***************************************************************************)
(* main                                                                    *)
(***************************************************************************)
mainVars == <<plus_shift, minus_shift, plus_shift_delta, minus_shift_delta,
              estimatorCalls, estimated>>
gbVars == <<streamsOpened, p1, delivered, adapterFailed, tmp_bedgraph, bedgraph,
            aggFailed, encoderInvoked, encoderFailed, outputFile>>
inputVars == <<entry, args, fileReads, chromSizes>>

\* parse_args returns
ParseArgs ==
    /\ pc = "parse_args"
    /\ ParseArgsOk(args)
    /\ pc' = "resolve"
    /\ UNCHANGED <<inputVars, mainVars, gbVars, outcome>>

\* parse_args ends the program: the input group is violated
ParseArgsError ==
    /\ pc = "parse_args"
    /\ ~ParseArgsOk(args)
    /\ pc' = "exit"
    /\ outcome' = "ConfigurationError"
    /\ UNCHANGED <<inputVars, mainVars, gbVars>>

\* lines 57-83: the shifts are taken from the user or from compute_shift
MainResolve ==
    /\ pc = "resolve"
    /\ LET needs == NeedsEstimate(args.plus_shift, args.minus_shift) IN
       \E est \in (IF needs THEN EstimatorResults ELSE {None}) :
           LET pair == ResolveShift(args.plus_shift, args.minus_shift, est) IN
           /\ estimatorCalls' = IF needs THEN estimatorCalls + 1 ELSE estimatorCalls
           /\ estimated' = IF needs THEN Some(est) ELSE None
           /\ plus_shift' = Some(pair[1])
           /\ minus_shift' = Some(pair[2])
    /\ pc' = "delta"
    /\ UNCHANGED <<inputVars, plus_shift_delta, minus_shift_delta, gbVars, outcome>>

\* compute_shift raises: the exception leaves main
MainEstimateFails ==
    /\ pc = "resolve"
    /\ NeedsEstimate(args.plus_shift, args.minus_shift)
    /\ estimatorCalls' = estimatorCalls + 1
    /\ pc' = "exit"
    /\ outcome' = "EstimationError"
    /\ UNCHANGED <<inputVars, plus_shift, minus_shift, plus_shift_delta,
                   minus_shift_delta, estimated, gbVars>>

\* lines 85-89 and the call of generate_bigwig
MainDelta ==
    /\ pc = "delta"
    /\ LET d == ComputeDelta(args.data_type, Val(plus_shift), Val(minus_shift)) IN
           /\ plus_shift_delta' = Some(d[1])
           /\ minus_shift_delta' = Some(d[2])
    /\ pc' = "gb_assert"
    /\ UNCHANGED <<inputVars, plus_shift, minus_shift, estimatorCalls, estimated,
                   gbVars, outcome>>

(***************************************************************************)
(* generate_bigwig                                                         *)
(***************************************************************************)
\* line 31: the assert passes, or AssertionError leaves the function
GbAssert ==
    /\ pc = "gb_assert"
    /\ IF OnlyOneInput(args)
       THEN pc' = "gb_open" /\ outcome' = outcome
       ELSE pc' = "exit" /\ outcome' = "AssertionError"
    /\ UNCHANGED <<inputVars, mainVars, gbVars>>

\* lines 33-38: the adapter of the given input is started
GbOpen ==
    /\ pc = "gb_open"
    /\ p1' = Some(AdapterKind(args))
    /\ streamsOpened' = streamsOpened + 1
    /\ pc' = "gb_bedgraph"
    /\ UNCHANGED <<inputVars, mainVars, delivered, adapterFailed, tmp_bedgraph,
                   bedgraph, aggFailed, encoderInvoked, encoderFailed, outputFile,
                   outcome>>

\* lines 40-47: the temporary file is created and the shell command writes it;
\* no exit status is read
BedGraphWritten(records, failed) ==
    /\ \E r \in Pipeline(records, chromSizes, Val(plus_shift_delta),
                         Val(minus_shift_delta)) :
           /\ bedgraph' = r.out
           /\ aggFailed' = r.failed
    /\ delivered' = records
    /\ adapterFailed' = failed
    /\ tmp_bedgraph' = "open"
    /\ pc' = "gb_bigwig"
    /\ UNCHANGED <<inputVars, mainVars, streamsOpened, p1, encoderInvoked,
                   encoderFailed, outputFile, outcome>>

\* the adapter delivers every record
GbBedGraph ==
    /\ pc = "gb_bedgraph"
    /\ BedGraphWritten(fileReads, FALSE)

\* the adapter ends with an error, having delivered the records before it
GbBedGraphAdapterFails ==
    /\ pc = "gb_bedgraph"
    /\ \E n \in 0..Len(fileReads) :
           BedGraphWritten(SubSeq(fileReads, 1, n), TRUE)

\* lines 49-50: bedGraphToBigWig runs and writes the output
GbBigwig ==
    /\ pc = "gb_bigwig"
    /\ encoderInvoked' = TRUE
    /\ outputFile' = "written"
    /\ pc' = "gb_close"
    /\ UNCHANGED <<inputVars, mainVars, streamsOpened, p1, delivered, adapterFailed,
                   tmp_bedgraph, bedgraph, aggFailed, encoderFailed, outcome>>

\* bedGraphToBigWig ends with an error; subprocess.run does not check it
GbBigwigFails ==
    /\ pc = "gb_bigwig"
    /\ encoderInvoked' = TRUE
    /\ encoderFailed' = TRUE
    /\ outputFile' \in {"absent", "partial"}
    /\ pc' = "gb_close"
    /\ UNCHANGED <<inputVars, mainVars, streamsOpened, p1, delivered, adapterFailed,
                   tmp_bedgraph, bedgraph, aggFailed, outcome>>

\* bedGraphToBigWig cannot be started: subprocess.run raises FileNotFoundError,
\* which leaves generate_bigwig before line 52 (the file object is then only
\* closed when the interpreter collects it, after the function was left)
GbBigwigCannotLaunch ==
    /\ pc = "gb_bigwig"
    /\ encoderFailed' = TRUE
    /\ pc' = "exit"
    /\ outcome' = "FileNotFoundError"
    /\ UNCHANGED <<inputVars, mainVars, streamsOpened, p1, delivered, adapterFailed,
                   tmp_bedgraph, bedgraph, aggFailed, encoderInvoked, outputFile>>

\* line 52: the temporary file is closed (and so deleted); the function returns
GbClose ==
    /\ pc = "gb_close"
    /\ tmp_bedgraph' = "closed"
    /\ pc' = "exit"
    /\ outcome' = "ok"
    /\ UNCHANGED <<inputVars, mainVars, streamsOpened, p1, delivered, adapterFailed,
                   bedgraph, aggFailed, encoderInvoked, encoderFailed, outputFile>>

\* lines 40-47 alone, on a stream the adapter delivers to its end (what a
\* failing adapter delivers is the whole of a shorter file)
NextPipeline == GbBedGraph

Next ==
    \/ ParseArgs
    \/ ParseArgsError
    \/ MainResolve
    \/ MainEstimateFails
    \/ MainDelta
    \/ GbAssert
    \/ GbOpen
    \/ GbBedGraph
    \/ GbBedGraphAdapterFails
    \/ GbBigwig
    \/ GbBigwigFails
    \/ GbBigwigCannotLaunch
    \/ GbClose

\* a run of the program from the command line
Spec == Init /\ [][Next]_vars

\* the shell command of generate_bigwig on every file, table and pair of deltas
SpecPipeline == InitPipeline /\ [][NextPipeline]_vars

\* the exit status of the process for an outcome of main
ExitStatus(o) ==
    IF o = "ok" THEN 0 ELSE IF o = "ConfigurationError" THEN 2 ELSE 1


(***************************************************************************)
(* Definitions the properties below are stated with.                       *)
(***************************************************************************)
\* the bedGraph has been written
Materialized == tmp_bedgraph # "none"

\* the cut site of a read under the deltas of the call
CutSite(r) ==
    IF r.strand = "+" THEN r.start + Val(plus_shift_delta)
    ELSE r.end + Val(minus_shift_delta) - 1

\* the cut site of a read lies on its chromosome
InBounds(r) == CutSite(r) >= 0 /\ CutSite(r) < ChromSize(chromSizes, r.chrom)

\* the number of delivered reads whose cut site is (c, p)
SitesAt(c, p) ==
    Cardinality({i \in DOMAIN delivered :
                    delivered[i].chrom = c /\ CutSite(delivered[i]) = p})

\* the depth the bedGraph gives position (c, p): 0 where no run covers it
EmittedDepth(c, p) ==
    IF \E i \in DOMAIN bedgraph :
           bedgraph[i].chrom = c /\ bedgraph[i].start <= p /\ p < bedgraph[i].end
    THEN LET i == CHOOSE i \in DOMAIN bedgraph :
                      bedgraph[i].chrom = c /\ bedgraph[i].start <= p
                      /\ p < bedgraph[i].end
         IN bedgraph[i].depth
    ELSE 0

\* the sum over the runs of (end - start) * depth
Mass ==
    LET F[i \in 0..Len(bedgraph)] ==
            IF i = 0 THEN 0
            ELSE F[i - 1] + (bedgraph[i].end - bedgraph[i].start) * bedgraph[i].depth
    IN F[Len(bedgraph)]

\* the delivered reads whose cut site lies in a run of the bedGraph
Contributors ==
    {i \in DOMAIN delivered :
        EmittedDepth(delivered[i].chrom, CutSite(delivered[i])) > 0}

\* the place of chromosome c in the chrom sizes table
DeclIndex(c) == CHOOSE i \in DOMAIN chromSizes : chromSizes[i].chrom = c

(***************************************************************************)
(* C1. In a command-line run the deltas satisfy: for ATAC,                 *)
(* plus_delta + plusShift = 4 and minus_delta + minusShift = -4; for       *)
(* DNASE, plus_delta + plusShift = 0 and minus_delta + minusShift = 1.     *)
(***************************************************************************)
C1_DeltaRule ==
    (entry = "main" /\ plus_shift_delta # None) =>
        LET p == Val(plus_shift)
            m == Val(minus_shift)
            pd == Val(plus_shift_delta)
            md == Val(minus_shift_delta)
        IN /\ args.data_type = "ATAC" => (pd + p = 4 /\ md + m = 0 - 4)
           /\ args.data_type = "DNASE" => (pd + p = 0 /\ md + m = 1)

\* DNASE with shifts 0/0 has got the deltas 0/1
C1_Witness ==
    /\ entry = "main"
    /\ args.data_type = "DNASE"
    /\ plus_shift = Some(0)
    /\ minus_shift = Some(0)
    /\ plus_shift_delta = Some(0)
    /\ minus_shift_delta = Some(1)

(***************************************************************************)
(* C2. The shift pair is never mixed: when the user gave both shifts the   *)
(* pair is the user's and the estimator is never called in the run; when   *)
(* either is absent both components are the estimator's result.            *)
(***************************************************************************)
C2_PairNeverMixed ==
    /\ (args.plus_shift # None /\ args.minus_shift # None) =>
           /\ estimatorCalls = 0
           /\ estimated = None
           /\ plus_shift # None =>
                  (plus_shift = args.plus_shift /\ minus_shift = args.minus_shift)
    /\ ((args.plus_shift = None \/ args.minus_shift = None) /\ plus_shift # None) =>
           /\ estimatorCalls = 1
           /\ estimated # None
           /\ plus_shift = Some(Val(estimated)[1])
           /\ minus_shift = Some(Val(estimated)[2])

\* the user gave only the plus shift, 1; the deltas were computed from the
\* estimator's pair <<0, 2>>
C2_Witness ==
    /\ args.plus_shift = Some(1)
    /\ args.minus_shift = None
    /\ estimated = Some(<<0, 2>>)
    /\ plus_shift = Some(0)
    /\ minus_shift = Some(2)
    /\ plus_shift_delta # None

(***************************************************************************)
(* C3. When the number of given input sources is not one, the run ends     *)
(* with a configuration error before anything is opened: the estimator    *)
(* has not been called and no adapter has been started.                    *)
(***************************************************************************)
C3_FailFast ==
    NumInputs(args) # 1 =>
        /\ estimatorCalls = 0
        /\ streamsOpened = 0
        /\ p1 = None
        /\ tmp_bedgraph = "none"
        /\ \/ pc = "parse_args"
           \/ pc = "exit" /\ outcome = "ConfigurationError"

\* a BAM and a fragment file were both given and the run has ended in the error
C3_Witness ==
    /\ entry = "main"
    /\ args.input_bam_file # None
    /\ args.input_fragment_file # None
    /\ args.plus_shift = None
    /\ pc = "exit"
    /\ outcome = "ConfigurationError"

(***************************************************************************)
(* C4. On every exit path of generate_bigwig after the temporary bedGraph  *)
(* was created, the temporary file has been released when the function    *)
(* is left.                                                                *)
(***************************************************************************)
C4_TmpReleasedOnExit ==
    (pc = "exit" /\ tmp_bedgraph # "none") => tmp_bedgraph = "closed"

(***************************************************************************)
(* C5. When a stage of the run (adapter, aggregation, encoder) ends in an  *)
(* error, the run ends with a non-zero exit status and no file at the      *)
(* output path; the output path is populated only when the run succeeds.   *)
(***************************************************************************)
C5_FatalErrorFailsRun ==
    (pc = "exit" /\ (adapterFailed \/ aggFailed \/ encoderFailed)) =>
        (ExitStatus(outcome) # 0 /\ outputFile = "absent")

(***************************************************************************)
(* C6. When the adapter or the aggregation fails, the encoder is never     *)
(* started afterwards on the partial bedGraph.                             *)
(***************************************************************************)
C6_NoEncoderAfterFailure ==
    (adapterFailed \/ aggFailed) => ~encoderInvoked

(***************************************************************************)
(* C7. The runs of the bedGraph are, within each chromosome, pairwise      *)
(* non-overlapping and in strictly increasing start order; every run has   *)
(* depth >= 1; no two adjacent runs have the same depth; the sum of        *)
(* (end - start) * depth over the runs is the number of cut sites that     *)
(* contributed coverage.                                                   *)
(***************************************************************************)
C7_RunsWellFormed ==
    Materialized =>
        /\ \A i \in DOMAIN bedgraph :
               bedgraph[i].start < bedgraph[i].end /\ bedgraph[i].depth >= 1
        /\ \A i, j \in DOMAIN bedgraph :
               (i < j /\ bedgraph[i].chrom = bedgraph[j].chrom) =>
                   /\ bedgraph[i].start < bedgraph[j].start
                   /\ bedgraph[i].end <= bedgraph[j].start
        /\ \A i, j \in DOMAIN bedgraph :
               (/\ i # j
                /\ bedgraph[i].chrom = bedgraph[j].chrom
                /\ bedgraph[i].end = bedgraph[j].start) =>
                   bedgraph[i].depth # bedgraph[j].depth
        /\ Mass = Cardinality(Contributors)

\* three reads gave two adjacent runs, of depths 2 and 1
C7_Witness ==
    /\ Materialized
    /\ ~aggFailed
    /\ Len(delivered) = 3
    /\ Len(bedgraph) = 2
    /\ bedgraph[1].chrom = bedgraph[2].chrom
    /\ bedgraph[1].end = bedgraph[2].start
    /\ bedgraph[1].depth = 2
    /\ bedgraph[2].depth = 1
    /\ Mass = 3

(***************************************************************************)
(* C8 (as amended). The chromosomes appear in the bedGraph handed to the   *)
(* encoder in ascending byte order of their names, whatever the order in   *)
(* which the chrom sizes table declares them.                              *)
(***************************************************************************)
C8_ByteOrder ==
    Materialized =>
        \A i, j \in DOMAIN bedgraph :
            i < j => ~LexLess(bedgraph[j].chrom, bedgraph[i].chrom)

\* the table declares chr2 before chr10, and the bedGraph holds chr10 then chr2
C8_Witness ==
    /\ Materialized
    /\ chromSizes[1].chrom = <<2>>
    /\ Len(bedgraph) = 2
    /\ bedgraph[1].chrom = <<1, 0>>
    /\ bedgraph[2].chrom = <<2>>

\* C8 as stated: the chromosomes appear in the order the table declares them
C8_DeclarationOrder ==
    Materialized =>
        \A i, j \in DOMAIN bedgraph :
            i < j => DeclIndex(bedgraph[i].chrom) <= DeclIndex(bedgraph[j].chrom)

(***************************************************************************)
(* C9. A read whose cut site falls outside [0, chromLength) is dropped:    *)
(* it contributes to no run, no run has a negative or out-of-range         *)
(* coordinate, and all other reads are still aggregated.                   *)
(***************************************************************************)
C9_OutOfBoundsDropped ==
    (Materialized /\ \E i \in DOMAIN delivered : ~InBounds(delivered[i])) =>
        /\ \A i \in DOMAIN bedgraph :
               /\ bedgraph[i].start >= 0
               /\ bedgraph[i].end <= ChromSize(chromSizes, bedgraph[i].chrom)
        /\ \A c \in Chroms : \A p \in 0..(ChromSize(chromSizes, c) - 1) :
               EmittedDepth(c, p) = SitesAt(c, p)

(***************************************************************************)
(* C10. When every read's cut site is in bounds (start + plus_delta for a  *)
(* '+' read, end + minus_delta - 1 for a '-' read), the depth emitted at   *)
(* a position is the number of reads whose cut site it is.                 *)
(***************************************************************************)
C10_DepthIsCutSiteCount ==
    (Materialized /\ \A i \in DOMAIN delivered : InBounds(delivered[i])) =>
        \A c \in Chroms : \A p \in 0..(ChromSize(chromSizes, c) - 1) :
            EmittedDepth(c, p) = SitesAt(c, p)

====
